---- MODULE Spec2Model ----
(***************************************************************************)
(* Step sequencer and drum synthesis transport of fi_drum_machine          *)
(* (src/src/App.tsx).  The React component is modelled as a state machine: *)
(* every UI event handler and every interval callback is one atomic step   *)
(* that includes the re-render and the effects the render commits.         *)
(*                                                                         *)
(* Rows and columns are 0-based as in the source; Cell/Truthy convert to   *)
(* the 1-based TLA+ sequences.  Times are in milliseconds.                 *)
(***************************************************************************)
EXTENDS Integers, Sequences, FiniteSets, TLC

VARIABLES
    bpm,          \* useState(120)
    beatsPerBar,  \* useState(4)
    isPlaying,    \* useState(false)
    currentStep,  \* useState(-1): the published step, -1 = not playing
    pattern,      \* useState(loadPattern(...)): boolean[][]
    storage,      \* localStorage item "drumMachine_v1"
    audioRef,     \* useRef<AudioContext | null>: 0 = null, else a context id
    ctxCreated,   \* number of AudioContext objects constructed so far
    timerRef,     \* useRef<number | null>: 0 = null, else an interval id
    timers,       \* the live intervals of the window: id -> closure record
    built,        \* the voices constructed by the handler that ran last
    escaped,      \* TRUE iff the handler that ran last threw past its boundary
    lastOp,       \* observation: the handler that ran last and what it saw
    edited,       \* observation: the pattern was edited since start()
    edits,        \* number of toggleCell / clearAll calls so far (bounded)
    scenario      \* which inputs the user exercises in this behaviour

vars == <<bpm, beatsPerBar, isPlaying, currentStep, pattern, storage,
          audioRef, ctxCreated, timerRef, timers, built, escaped, lastOp,
          edited, edits, scenario>>

-----------------------------------------------------------------------------
(* Bounds of the model *)

MaxTimers == 2        \* interval ids the window can hand out at one time
MaxEdits == 2         \* toggleCell / clearAll calls in one behaviour
MaxTestRows == 2      \* rows of a matrix handed to a pattern helper
MaxTestCols == 2      \* cells in one row of such a matrix

\* the grid buttons the user clicks: the kick and both hi-hats of column 0
EditCells == {<<0, 0>>, <<2, 0>>, <<3, 0>>}

\* A behaviour is one of two sessions.  In "transport" the user plays with
\* every tempo and meter of the controls over a loaded pattern; in "editing"
\* the user edits the grid while playing, at two meters.
Scenarios == {"transport", "editing"}

-----------------------------------------------------------------------------
(* Program constants *)

stepsPerBeat == 4
MinBpm == 60
MaxBpm == 180
MinBeats == 2
MaxBeats == 7
DefaultBpm == 120
DefaultBeats == 4
NotPlaying == -1

ClosedDecay == 30     \* synthHiHat(ctx, now, 0.03, 8000)
ChokedDecay == 120    \* chokeOpenHat ? 0.12 : 0.25
OpenDecay == 250

instruments ==
    <<"kick", "snare", "hihat_c", "hihat_o", "crash",
      "ride_bow", "ride_edge", "tom_hi", "tom_mid", "tom_low">>

Rows == 0..(Len(instruments) - 1)

\* instruments.findIndex((x) => x.id === id)
findIndex(id) ==
    IF \E r \in Rows : instruments[r + 1] = id
    THEN CHOOSE r \in Rows :
            /\ instruments[r + 1] = id
            /\ \A q \in Rows : instruments[q + 1] = id => r <= q
    ELSE -1

totalSteps == beatsPerBar * stepsPerBeat

Tempos == {MinBpm, DefaultBpm, MaxBpm}
Meters == MinBeats..MaxBeats

TemposOf(s) == IF s = "transport" THEN Tempos ELSE {DefaultBpm, MaxBpm}
MetersOf(s) == IF s = "transport" THEN Meters ELSE {MinBeats, DefaultBeats}
\* the positions the user asks of the tempo slider: those of Tempos and, in
\* "transport", one below the slider's min and one above its max
TempoRequestsOf(s) ==
    TemposOf(s) \cup (IF s = "transport" THEN {MinBpm - 1, MaxBpm + 1} ELSE {})

EditsOf(s) == IF s = "editing" THEN MaxEdits ELSE 0

Min(a, b) == IF a <= b THEN a ELSE b

\* <input type="range" min={60} max={180}>: the value the control holds
\* when asked for position v
rangeInputUnbounded(v) == v

rangeInput(v) ==
    IF v < MinBpm THEN MinBpm ELSE IF v > MaxBpm THEN MaxBpm ELSE v

-----------------------------------------------------------------------------
(* Pattern helpers *)

makeEmpty(rows, cols) == [r \in 1..rows |-> [c \in 1..cols |-> FALSE]]

\* copies prev[r][c + 1] instead of prev[r][c]
resizePatternShifted(prev, rows, cols) ==
    [r \in 1..rows |->
        [c \in 1..cols |->
            IF r <= Min(rows, Len(prev)) /\ c + 1 <= Min(cols, Len(prev[r]))
            THEN prev[r][c + 1]
            ELSE FALSE]]

\* stops one column short of the overlap
resizePatternDropLast(prev, rows, cols) ==
    [r \in 1..rows |->
        [c \in 1..cols |->
            IF r <= Min(rows, Len(prev)) /\ c < Min(cols, Len(prev[r]))
            THEN prev[r][c]
            ELSE FALSE]]

\* keeps the rows of prev beyond the target row count
resizePatternKeepRows(prev, rows, cols) ==
    [r \in 1..(IF Len(prev) > rows THEN Len(prev) ELSE rows) |->
        [c \in 1..cols |->
            IF r <= Len(prev) /\ c <= Min(cols, Len(prev[r]))
            THEN prev[r][c]
            ELSE FALSE]]

resizePattern(prev, rows, cols) ==
    [r \in 1..rows |->
        [c \in 1..cols |->
            IF r <= Min(rows, Len(prev)) /\ c <= Min(cols, Len(prev[r]))
            THEN prev[r][c]
            ELSE FALSE]]

\* pattern[r]?.[c]: the cell, or undefined (not truthy) outside the matrix
TruthyShifted(p, r, c) ==
    /\ r + 1 \in 1..Len(p)
    /\ c + 2 \in 1..Len(p[r + 1])
    /\ p[r + 1][c + 2] = TRUE

Truthy(p, r, c) ==
    /\ r + 1 \in 1..Len(p)
    /\ c + 1 \in 1..Len(p[r + 1])
    /\ p[r + 1][c + 1] = TRUE

SetCell(p, r, c, v) == [p EXCEPT ![r + 1][c + 1] = v]

\* The localStorage item is a record [kind, m].  kind tells what getItem and
\* JSON.parse make of it:
\*   "throws"      getItem and setItem throw (storage access denied)
\*   "none"        getItem returns null
\*   "unparsable"  JSON.parse throws
\*   "null"        the parsed value is null, or an array holding null: reading
\*                 .length of it throws a TypeError inside resizePattern
\*   "number"      a number, boolean or plain object: .length is undefined
\*   "scalars"     an array of numbers: its elements have no .length
\*   "string"      a JSON string: .length characters, each a string of length 1
\*                 whose [0] is the (truthy) character itself
\*   "matrix"      an array of arrays of booleans
\* m is the value as resizePattern indexes it, prev[r][c] for r < prev.length
\* and c < prev[r].length, with every cell reduced to its truthiness.
Caught == {"throws", "none", "unparsable", "null"}

\* localStorage.setItem("drumMachine_v1", JSON.stringify(p)) in try/catch
savePattern(store, p) ==
    IF store.kind = "throws" THEN store ELSE [kind |-> "matrix", m |-> p]

\* try { raw = getItem; if (raw) return resizePattern(JSON.parse(raw), ..) }
\* catch {}; return makeEmpty(..)
loadPattern(item, cols) ==
    IF item.kind \in Caught
    THEN makeEmpty(Len(instruments), cols)
    ELSE resizePattern(item.m, Len(instruments), cols)

\* useState(() => loadPattern(..)) followed by the mount's resize effect
mountPattern(item, cols) ==
    resizePattern(loadPattern(item, cols), Len(instruments), cols)

\* toggleCell's state updater (valid indices)
toggleCellNoChoke(prev, r, c) == SetCell(prev, r, c, ~prev[r + 1][c + 1])

toggleCellClosedOnly(prev, r, c) ==
    LET flipped == SetCell(prev, r, c, ~prev[r + 1][c + 1])
    IN  IF instruments[r + 1] = "hihat_c" /\ findIndex("hihat_o") >= 0
        THEN SetCell(flipped, findIndex("hihat_o"), c, FALSE)
        ELSE flipped

\* starts from an empty matrix instead of a copy of prev
toggleCellFromEmpty(prev, r, c) ==
    SetCell(makeEmpty(Len(prev), Len(prev[1])), r, c, ~prev[r + 1][c + 1])

toggleCell(prev, r, c) ==
    LET flipped == SetCell(prev, r, c, ~prev[r + 1][c + 1])
        instId == instruments[r + 1]
        openRow == findIndex("hihat_o")
        closedRow == findIndex("hihat_c")
        afterClosed ==
            IF instId = "hihat_c" /\ openRow >= 0
            THEN SetCell(flipped, openRow, c, FALSE)
            ELSE flipped
    IN  IF instId = "hihat_o" /\ closedRow >= 0 /\ afterClosed[r + 1][c + 1]
        THEN SetCell(afterClosed, closedRow, c, FALSE)
        ELSE afterClosed

-----------------------------------------------------------------------------
(* Voice synthesis: what playStep asks the engine to build *)

Voice(id, recipe, decay, tone, ctx) ==
    [inst |-> id, recipe |-> recipe, decay |-> decay, tone |-> tone, ctx |-> ctx]

openHatDecayUnchoked(chokeOpenHat) == OpenDecay

openHatDecayAsClosed(chokeOpenHat) ==
    IF chokeOpenHat THEN ClosedDecay ELSE OpenDecay

openHatDecay(chokeOpenHat) == IF chokeOpenHat THEN ChokedDecay ELSE OpenDecay

\* the switch of playStep: the synth call made for an active row
synthFor(id, chokeOpenHat, ctx) ==
    CASE id = "kick"      -> Voice(id, "synthKick", 250, 80, ctx)
      [] id = "snare"     -> Voice(id, "synthSnare", 300, 2000, ctx)
      [] id = "hihat_c"   -> Voice(id, "synthHiHat", ClosedDecay, 8000, ctx)
      [] id = "hihat_o"   -> Voice(id, "synthHiHat", openHatDecay(chokeOpenHat), 9000, ctx)
      [] id = "crash"     -> Voice(id, "synthCymbal", 1800, 7000, ctx)
      [] id = "ride_bow"  -> Voice(id, "synthCymbal", 600, 5000, ctx)
      [] id = "ride_edge" -> Voice(id, "synthCymbal", 900, 5500, ctx)
      [] id = "tom_hi"    -> Voice(id, "synthTom", 400, 230, ctx)
      [] id = "tom_mid"   -> Voice(id, "synthTom", 400, 180, ctx)
      [] id = "tom_low"   -> Voice(id, "synthTom", 400, 140, ctx)

\* What the recipe of voice v schedules, in milliseconds after `when`: for
\* each sound source its start, the end of the gain ramp it is routed
\* through (env) and its stop
Source(name, env, stop) == [src |-> name, start |-> 0, env |-> env, stop |-> stop]

Sources(v) ==
    CASE v.recipe = "synthKick" ->
            {Source("osc1", 250, 300), Source("osc2", 250, 300)}
      [] v.recipe = "synthSnare" ->
            {Source("noise", 300, 310), Source("shellOsc", 250, 260),
             Source("wireOsc", 200, 210)}
      [] v.recipe = "synthHiHat" ->
            {Source("noise1", v.decay, v.decay + 10),
             Source("noise2", (v.decay * 15) \div 10, (v.decay * 15) \div 10 + 10)}
      [] v.recipe = "synthCymbal" ->
            {Source("noise1", v.decay, v.decay + 50),
             Source("noise2", (v.decay * 8) \div 10, (v.decay * 8) \div 10 + 50),
             Source("noise3", (v.decay * 6) \div 10, (v.decay * 6) \div 10 + 50)}
      [] v.recipe = "synthTom" ->
            {Source("osc1", 400, 400), Source("osc2", 400, 400)}

\* chokeOpenHat after the case of `id` has run
chokeAfterNever(chokeOpenHat, id) == chokeOpenHat

chokeAfter(chokeOpenHat, id) == chokeOpenHat \/ id = "hihat_c"

\* instruments.forEach((inst, r) => ...) from position i of `order` on; `order`
\* lists the rows in iteration order, `failing` is the instrument whose synth
\* call throws ("" for none).  A throw leaves forEach and playStep at once.
RECURSIVE playRows(_, _, _, _, _, _, _)
playRows(order, i, pat, stepIndex, ctx, chokeOpenHat, failing) ==
    IF i > Len(order)
    THEN [built |-> <<>>, threw |-> FALSE]
    ELSE LET r == order[i]
             id == instruments[r + 1]
         IN  IF ~Truthy(pat, r, stepIndex)
             THEN playRows(order, i + 1, pat, stepIndex, ctx, chokeOpenHat, failing)
             ELSE IF id = failing
             THEN [built |-> <<>>, threw |-> TRUE]
             ELSE LET rest == playRows(order, i + 1, pat, stepIndex, ctx,
                                       chokeAfter(chokeOpenHat, id), failing)
                  IN  [built |-> <<synthFor(id, chokeOpenHat, ctx)>> \o rest.built,
                       threw |-> rest.threw]

RowOrder == [i \in 1..Len(instruments) |-> i - 1]

playStep(pat, stepIndex, ctx, failing) ==
    playRows(RowOrder, 1, pat, stepIndex, ctx, FALSE, failing)

-----------------------------------------------------------------------------
(* Audio context *)

NoCtx == 0

\* constructs a context on every call
getCtxAlwaysNew == [ref |-> ctxCreated + 1, created |-> ctxCreated + 1]

\* getCtx(): the context handle after the call, and how many were constructed
getCtx ==
    IF audioRef = NoCtx
    THEN [ref |-> ctxCreated + 1, created |-> ctxCreated + 1]
    ELSE [ref |-> audioRef, created |-> ctxCreated]

-----------------------------------------------------------------------------
(* Interval timers *)

NoTimer == 0

\* (60_000 / bpm) / stepsPerBeat, kept in whole microseconds
stepMs(b) == (60000000 \div b) \div stepsPerBeat

\* window.clearInterval(id)
clearIntervalKeeps(ts, id) == ts

clearInterval(ts, id) == [i \in (DOMAIN ts) \ {id} |-> ts[i]]

\* the id window.setInterval hands out: one that is not live
FreeIds(ts) == (1..MaxTimers) \ DOMAIN ts
newId(ts) == CHOOSE i \in FreeIds(ts) : \A j \in FreeIds(ts) : i <= j

\* the closure start() hands to setInterval: its own cursor, and the
\* totalSteps and pattern of the render start() belongs to
startClosureFromZero(b, total, pat, origin) ==
    [step |-> 0, totalSteps |-> total, pattern |-> pat,
     stepMs |-> stepMs(b), origin |-> origin, fired |-> FALSE]

startClosure(b, total, pat, origin) ==
    [step |-> -1, totalSteps |-> total, pattern |-> pat,
     stepMs |-> stepMs(b), origin |-> origin, fired |-> FALSE]

\* the closure the tempo/meter effect hands to setInterval
effectClosureRestart(b, total, pat, cur, origin) ==
    [step |-> -1, totalSteps |-> total, pattern |-> pat,
     stepMs |-> stepMs(b), origin |-> origin, fired |-> FALSE]

\* keeps the totalSteps of the render before the change
effectClosureStaleTotal(b, total, pat, cur, origin) ==
    [ms |-> stepMs(b), totalSteps |-> totalSteps, pattern |-> pat, step |-> cur,
     origin |-> origin, fired |-> FALSE]

effectClosure(b, total, pat, cur, origin) ==
    [step |-> cur, totalSteps |-> total, pattern |-> pat,
     stepMs |-> stepMs(b), origin |-> origin, fired |-> FALSE]

\* if (isPlaying && timerRef.current)
effectGuardAlways(playing, ref) == TRUE

effectGuard(playing, ref) == playing /\ ref # NoTimer

\* step = (step + 1) % totalSteps
nextStepNoWrap(step, total) == step + 1

nextStep(step, total) == (step + 1) % total

-----------------------------------------------------------------------------
(* Observations *)

\* lastOp: op is the handler; for a tick, t is the interval that fired,
\* prevStep the step published before it, first whether it is the first tick
\* of that interval, origin what armed the interval ("start", "restart" for
\* a start() right after stop(), "tempo", "meter") and failing the synth call
\* that threw; for a grid edit or a meter change, r and c are the cell and
\* pat is the pattern before the handler ran; for a tempo or meter change,
\* wasPlaying tells whether the transport was running and, for a tempo
\* change, r is the position asked of the slider; for the mount, item
\* is the localStorage item it found

Op(name) ==
    [op |-> name, t |-> NoTimer, prevStep |-> NotPlaying, first |-> FALSE,
     origin |-> "", failing |-> "", r |-> -1, c |-> -1, wasPlaying |-> FALSE,
     pat |-> <<>>, item |-> [kind |-> "none", m |-> <<>>]]

-----------------------------------------------------------------------------
(* Initial state: the component after mount *)

\* what localStorage may hold when the application starts
SavedMatrix ==
    [r \in 1..11 |->
        [c \in 1..(IF r % 2 = 1 THEN 30 ELSE 2) |->
            \/ c = 1 /\ r \in {1, 3, 4}
            \/ c = 2 /\ r # 3
            \/ c = 30]]

Snapshots ==
    {[kind |-> "none", m |-> <<>>], [kind |-> "throws", m |-> <<>>],
     [kind |-> "matrix", m |-> SavedMatrix]}

SnapshotsOf(s) ==
    IF s = "editing" THEN Snapshots ELSE {[kind |-> "matrix", m |-> SavedMatrix]}

\* the component after its mount in a behaviour of scenario s
Mounted(s) ==
    /\ scenario = s
    /\ bpm = DefaultBpm
    /\ beatsPerBar = DefaultBeats
    /\ isPlaying = FALSE
    /\ currentStep = NotPlaying
    /\ \E item \in SnapshotsOf(scenario) :
          \* useState(() => loadPattern(...)), then the mount effects:
          \* resizePattern to the grid size and savePattern
          /\ pattern = mountPattern(item, DefaultBeats * stepsPerBeat)
          /\ storage = savePattern(item, pattern)
          /\ lastOp = [Op("mount") EXCEPT !.item = item]
    /\ audioRef = NoCtx
    /\ ctxCreated = 0
    /\ timerRef = NoTimer
    /\ timers = <<>>
    /\ built = <<>>
    /\ escaped = FALSE
    /\ edited = FALSE
    /\ edits = 0

Init == \E s \in Scenarios : Mounted(s)

-----------------------------------------------------------------------------
(* Handlers *)

\* the tempo/meter effect of the render with state (b, bpb, pat): the timers
\* and timerRef it leaves
rescheduleEffect(b, bpb, pat, origin) ==
    IF effectGuard(isPlaying, timerRef)
    THEN LET cleared == clearInterval(timers, timerRef)
             id == newId(cleared)
         IN  [timers |-> (id :> effectClosure(b, bpb * stepsPerBeat, pat,
                                              currentStep, origin)) @@ cleared,
              ref |-> id]
    ELSE [timers |-> timers, ref |-> timerRef]

\* start(): the Play button (rendered while !isPlaying); in "restart" it is
\* also called while the transport is running
Start ==
    /\ ~isPlaying \/ scenario = "restart"
    /\ LET cleared == IF timerRef # NoTimer
                      THEN clearInterval(timers, timerRef) ELSE timers
       IN  /\ FreeIds(cleared) # {}
           /\ timers' = (newId(cleared) :>
                            startClosure(bpm, totalSteps, pattern,
                                IF lastOp.op = "stop" THEN "restart" ELSE "start"))
                        @@ cleared
           /\ timerRef' = newId(cleared)
    /\ audioRef' = getCtx.ref
    /\ ctxCreated' = getCtx.created
    /\ isPlaying' = TRUE
    /\ built' = <<>>
    /\ escaped' = FALSE
    /\ edited' = FALSE
    /\ lastOp' = Op("start")
    /\ UNCHANGED <<bpm, beatsPerBar, currentStep, pattern, storage, edits, scenario>>

\* Stop button (rendered while isPlaying)
Stop ==
    /\ isPlaying
    /\ timers' = IF timerRef # NoTimer
                 THEN clearInterval(timers, timerRef) ELSE timers
    /\ timerRef' = NoTimer
    /\ isPlaying' = FALSE
    /\ currentStep' = NotPlaying
    /\ built' = <<>>
    /\ escaped' = FALSE
    /\ edited' = FALSE
    /\ lastOp' = Op("stop")
    /\ UNCHANGED <<bpm, beatsPerBar, pattern, storage, audioRef, ctxCreated, edits,
                   scenario>>

\* the interval callback of live timer t; `failing` is the instrument whose
\* synth call throws on this tick, "" for none
Tick(t, failing) ==
    /\ t \in DOMAIN timers
    /\ failing # "" =>
          Truthy(timers[t].pattern, findIndex(failing),
                 nextStep(timers[t].step, timers[t].totalSteps))
    /\ LET tm == timers[t]
           step == nextStep(tm.step, tm.totalSteps)
           played == playStep(tm.pattern, step, getCtx.ref, failing)
       IN  /\ timers' = [timers EXCEPT ![t].step = step, ![t].fired = TRUE]
           /\ currentStep' = step
           /\ built' = played.built
           /\ escaped' = played.threw
           /\ lastOp' = [Op("tick") EXCEPT !.t = t, !.prevStep = currentStep,
                                           !.first = ~tm.fired,
                                           !.origin = tm.origin,
                                           !.failing = failing]
    /\ audioRef' = getCtx.ref
    /\ ctxCreated' = getCtx.created
    /\ UNCHANGED <<bpm, beatsPerBar, isPlaying, pattern, storage, timerRef,
                   edited, edits, scenario>>

\* tempo slider onChange
SetBpm(v) ==
    /\ v \in TempoRequestsOf(scenario)
    /\ rangeInput(v) # bpm
    /\ bpm' = rangeInput(v)
    /\ LET eff == rescheduleEffect(bpm', beatsPerBar, pattern, "tempo")
       IN  /\ effectGuard(isPlaying, timerRef) =>
                 FreeIds(clearInterval(timers, timerRef)) # {}
           /\ timers' = eff.timers
           /\ timerRef' = eff.ref
    /\ built' = <<>>
    /\ escaped' = FALSE
    /\ lastOp' = [Op("setBpm") EXCEPT !.wasPlaying = isPlaying, !.r = v]
    /\ UNCHANGED <<beatsPerBar, isPlaying, currentStep, pattern, storage,
                   audioRef, ctxCreated, edited, edits, scenario>>

\* time-signature select onChange: the render with the new totalSteps commits
\* the resize effect (which queues the resized pattern) and the tempo/meter
\* effect (which closes over the pattern of this render); the next render
\* holds the resized pattern and saves it
SetBeatsPerBar(n) ==
    /\ n \in MetersOf(scenario)
    /\ n # beatsPerBar
    /\ beatsPerBar' = n
    /\ LET eff == rescheduleEffect(bpm, n, pattern, "meter")
       IN  /\ effectGuard(isPlaying, timerRef) =>
                 FreeIds(clearInterval(timers, timerRef)) # {}
           /\ timers' = eff.timers
           /\ timerRef' = eff.ref
    /\ pattern' = resizePattern(pattern, Len(instruments), n * stepsPerBeat)
    /\ storage' = savePattern(storage, pattern')
    /\ built' = <<>>
    /\ escaped' = FALSE
    /\ lastOp' = [Op("setBeatsPerBar") EXCEPT !.wasPlaying = isPlaying,
                                                 !.pat = pattern]
    /\ UNCHANGED <<bpm, isPlaying, currentStep, audioRef, ctxCreated, edited,
                   edits, scenario>>

\* a grid button of row r, column c
ToggleCell(r, c) ==
    /\ edits < EditsOf(scenario)
    /\ r \in Rows
    /\ c \in 0..(totalSteps - 1)
    /\ pattern' = toggleCell(pattern, r, c)
    /\ storage' = savePattern(storage, pattern')
    /\ built' = <<>>
    /\ escaped' = FALSE
    /\ edited' = isPlaying
    /\ edits' = edits + 1
    /\ lastOp' = [Op("toggleCell") EXCEPT !.r = r, !.c = c, !.pat = pattern]
    /\ UNCHANGED <<bpm, beatsPerBar, isPlaying, currentStep, audioRef,
                   ctxCreated, timerRef, timers, scenario>>

\* Clear button
ClearAll ==
    /\ edits < EditsOf(scenario)
    /\ pattern' = makeEmpty(Len(instruments), totalSteps)
    /\ storage' = savePattern(storage, pattern')
    /\ built' = <<>>
    /\ escaped' = FALSE
    /\ edited' = isPlaying
    /\ edits' = edits + 1
    /\ lastOp' = [Op("clearAll") EXCEPT !.pat = pattern]
    /\ UNCHANGED <<bpm, beatsPerBar, isPlaying, currentStep, audioRef,
                   ctxCreated, timerRef, timers, scenario>>

\* the synth calls that are made to throw: none, the first row, a hi-hat, a
\* row in the middle of the roster
Failures == {"", "kick", "hihat_c", "crash"}

Next ==
    \/ Start
    \/ Stop
    \/ \E t \in 1..MaxTimers, f \in Failures : Tick(t, f)
    \/ \E v \in TempoRequestsOf("transport") : SetBpm(v)
    \/ \E n \in Meters : SetBeatsPerBar(n)
    \/ \E cell \in EditCells : ToggleCell(cell[1], cell[2])
    \/ ClearAll

Spec == Init /\ [][Next]_vars

-----------------------------------------------------------------------------
(* start() called directly: the transport handlers with start() also invoked
   while the transport is running, which the Play button does not allow *)

RestartInit == Mounted("restart")

RestartNext ==
    \/ Start
    \/ Stop
    \/ \E t \in 1..MaxTimers, f \in Failures : Tick(t, f)
    \/ \E v \in Tempos : SetBpm(v)
    \/ \E n \in Meters : SetBeatsPerBar(n)

RestartSpec == RestartInit /\ [][RestartNext]_vars

-----------------------------------------------------------------------------
(* The transport variant of src/unnamed/part_000: start(), stop(), playStep
   and the controls are the same; its tempo/meter effect calls stop() and
   start() *)

\* useEffect(() => { if (isPlaying) { stop(); start(); } }, [bpm, totalSteps])
\* of the render with state (b, bpb, pat): the timers, timerRef and published
\* step it leaves.  stop() clears the interval and publishes -1; start() arms
\* one that counts from -1.
part000Effect(b, bpb, pat, origin) ==
    IF isPlaying
    THEN LET cleared == IF timerRef # NoTimer
                        THEN clearInterval(timers, timerRef) ELSE timers
             id == newId(cleared)
         IN  [timers |-> (id :> startClosure(b, bpb * stepsPerBeat, pat, origin))
                            @@ cleared,
              ref |-> id, step |-> NotPlaying]
    ELSE [timers |-> timers, ref |-> timerRef, step |-> currentStep]

\* tempo slider onChange; lastOp.prevStep is the step published before it
Part000SetBpm(v) ==
    /\ v \in Tempos
    /\ rangeInput(v) # bpm
    /\ bpm' = rangeInput(v)
    /\ LET eff == part000Effect(bpm', beatsPerBar, pattern, "tempo")
       IN  /\ timers' = eff.timers
           /\ timerRef' = eff.ref
           /\ currentStep' = eff.step
    /\ built' = <<>>
    /\ escaped' = FALSE
    /\ lastOp' = [Op("setBpm") EXCEPT !.wasPlaying = isPlaying, !.r = v,
                                       !.prevStep = currentStep]
    /\ UNCHANGED <<beatsPerBar, isPlaying, pattern, storage, audioRef,
                   ctxCreated, edited, edits, scenario>>

\* time-signature select onChange
Part000SetBeatsPerBar(n) ==
    /\ n \in Meters
    /\ n # beatsPerBar
    /\ beatsPerBar' = n
    /\ LET eff == part000Effect(bpm, n, pattern, "meter")
       IN  /\ timers' = eff.timers
           /\ timerRef' = eff.ref
           /\ currentStep' = eff.step
    /\ pattern' = resizePattern(pattern, Len(instruments), n * stepsPerBeat)
    /\ storage' = savePattern(storage, pattern')
    /\ built' = <<>>
    /\ escaped' = FALSE
    /\ lastOp' = [Op("setBeatsPerBar") EXCEPT !.wasPlaying = isPlaying,
                                                 !.pat = pattern,
                                                 !.prevStep = currentStep]
    /\ UNCHANGED <<bpm, isPlaying, audioRef, ctxCreated, edited, edits,
                   scenario>>

Part000Init == Mounted("part_000")

Part000Next ==
    \/ Start
    \/ Stop
    \/ \E t \in 1..MaxTimers, f \in Failures : Tick(t, f)
    \/ \E v \in Tempos : Part000SetBpm(v)
    \/ \E n \in Meters : Part000SetBeatsPerBar(n)

Part000Spec == Part000Init /\ [][Part000Next]_vars

-----------------------------------------------------------------------------
(* The pattern helpers called on their own: resizePattern on any parsed
   value, the mount on any localStorage item, and toggleCell's updater on the
   mounted pattern with any row and column *)

TestRowsOfCells == UNION {[1..n -> BOOLEAN] : n \in 0..MaxTestCols}
TestMatrices == UNION {[1..n -> TestRowsOfCells] : n \in 0..MaxTestRows}

TestItems ==
    {[kind |-> k, m |-> <<>>] : k \in Caught \cup {"number"}}
        \cup {[kind |-> "scalars", m |-> << <<>>, <<>> >>],
              [kind |-> "string", m |-> << <<TRUE>>, <<TRUE>> >>],
              [kind |-> "matrix", m |-> SavedMatrix]}
        \cup {[kind |-> "matrix", m |-> p] : p \in TestMatrices}

\* copy[r][c] = v on an existing row: an index past the row's end extends it
\* (the skipped cells are holes, which are not truthy)
WriteCell(p, r, c, v) ==
    LET row == p[r + 1]
        n == IF c + 1 > Len(row) THEN c + 1 ELSE Len(row)
    IN  [p EXCEPT ![r + 1] =
            [k \in 1..n |-> IF k = c + 1 THEN v
                            ELSE IF k <= Len(row) THEN row[k] ELSE FALSE]]

\* toggleCell's state updater for any r >= 0 and c >= 0: the pattern it
\* returns, or threw when it raises a TypeError (copy[r] or instruments[r]
\* undefined) and the state keeps prev
toggleCellAny(prev, r, c) ==
    IF r + 1 > Len(prev) \/ r + 1 > Len(instruments)
    THEN [threw |-> TRUE, pattern |-> prev]
    ELSE LET flipped == WriteCell(prev, r, c, ~Truthy(prev, r, c))
             openRow == findIndex("hihat_o")
             closedRow == findIndex("hihat_c")
         IN  IF instruments[r + 1] = "hihat_c" /\ openRow >= 0
             THEN IF openRow + 1 > Len(prev)
                  THEN [threw |-> TRUE, pattern |-> prev]
                  ELSE [threw |-> FALSE,
                        pattern |-> WriteCell(flipped, openRow, c, FALSE)]
             ELSE IF instruments[r + 1] = "hihat_o" /\ closedRow >= 0
                        /\ Truthy(flipped, r, c)
             THEN IF closedRow + 1 > Len(prev)
                  THEN [threw |-> TRUE, pattern |-> prev]
                  ELSE [threw |-> FALSE,
                        pattern |-> WriteCell(flipped, closedRow, c, FALSE)]
             ELSE [threw |-> FALSE, pattern |-> flipped]

\* the rows and columns toggleCell is called with: inside the shape, its
\* last row and column, and one and three past them
TestRowIndexes == {0, 2, 3, 9, 10, 12}
TestColIndexes == {0, totalSteps - 1, totalSteps, totalSteps + 2}

HelperInit ==
    /\ scenario = "helpers"
    /\ storage \in TestItems
    /\ pattern = storage.m
    /\ bpm = DefaultBpm
    /\ beatsPerBar = DefaultBeats
    /\ isPlaying = FALSE
    /\ currentStep = NotPlaying
    /\ audioRef = NoCtx
    /\ ctxCreated = 0
    /\ timerRef = NoTimer
    /\ timers = <<>>
    /\ built = <<>>
    /\ escaped = FALSE
    /\ lastOp = Op("none")
    /\ edited = FALSE
    /\ edits = 0

\* resizePattern(pattern, rows, cols) on the parsed value
CallResize(rows, cols) ==
    /\ lastOp.op = "none"
    /\ storage.kind \notin Caught
    /\ pattern' = resizePattern(pattern, rows, cols)
    /\ lastOp' = [Op("resizePattern") EXCEPT !.r = rows, !.c = cols,
                                              !.pat = pattern]
    /\ UNCHANGED <<bpm, beatsPerBar, isPlaying, currentStep, storage, audioRef,
                   ctxCreated, timerRef, timers, built, escaped, edited, edits,
                   scenario>>

\* the mount: loadPattern, the resize effect and the save effect
CallMount ==
    /\ lastOp.op = "none"
    /\ pattern' = mountPattern(storage, totalSteps)
    /\ storage' = savePattern(storage, pattern')
    /\ lastOp' = [Op("mount") EXCEPT !.item = storage]
    /\ UNCHANGED <<bpm, beatsPerBar, isPlaying, currentStep, audioRef,
                   ctxCreated, timerRef, timers, built, escaped, edited, edits,
                   scenario>>

\* setPattern(updater) of toggleCell(r, c) on the mounted pattern, and the
\* save effect when the pattern changed
CallToggle(r, c) ==
    /\ lastOp.op = "mount"
    /\ LET res == toggleCellAny(pattern, r, c)
       IN  /\ pattern' = res.pattern
           /\ escaped' = res.threw
           /\ storage' = IF res.threw THEN storage
                         ELSE savePattern(storage, res.pattern)
    /\ lastOp' = [Op("toggleCell") EXCEPT !.r = r, !.c = c, !.pat = pattern]
    /\ UNCHANGED <<bpm, beatsPerBar, isPlaying, currentStep, audioRef,
                   ctxCreated, timerRef, timers, built, edited, edits,
                   scenario>>

HelperNext ==
    \/ \E rows \in 0..(MaxTestRows + 1), cols \in 0..(MaxTestCols + 1) :
          CallResize(rows, cols)
    \/ CallMount
    \/ \E r \in TestRowIndexes : \E c \in TestColIndexes :
          CallToggle(r, c)

HelperSpec == HelperInit /\ [][HelperNext]_vars

-----------------------------------------------------------------------------
(* Properties *)

\* cell (r, c) of matrix p is present and true
Active(p, r, c) ==
    /\ r >= 0 /\ r < Len(p)
    /\ c >= 0 /\ c < Len(p[r + 1])
    /\ p[r + 1][c + 1] = TRUE

\* number of voices of instrument id in a sequence of voices
Count(vs, id) == Cardinality({i \in 1..Len(vs) : vs[i].inst = id})

\* the decays of the open hi-hat voices in a sequence of voices
OpenDecays(vs) == {vs[i].decay : i \in {j \in 1..Len(vs) : vs[j].inst = "hihat_o"}}

ClosedRow == 2
OpenRow == 3

IsTick == lastOp.op = "tick"

\* the pattern the tick handler that ran last read
TickPattern == timers[lastOp.t].pattern

\* C1: a tempo change while running does not reset the cursor: the first tick
\* of the interval the tempo change armed publishes the step after the one
\* published before it, modulo totalSteps
C1_TempoChangeKeepsCursor ==
    (IsTick /\ lastOp.first /\ lastOp.origin = "tempo")
        => currentStep = (lastOp.prevStep + 1) % totalSteps

C1_Witness ==
    /\ IsTick /\ lastOp.first /\ lastOp.origin = "tempo"
    /\ bpm = MaxBpm
    /\ lastOp.prevStep = 2
    /\ currentStep = 3

\* C2: the first tick after start(), also after a stop() that followed any
\* ticks, tempo changes and meter changes, publishes step 0
C2_RestartFromZero ==
    (IsTick /\ lastOp.first /\ lastOp.origin \in {"start", "restart"})
        => currentStep = 0

C2_Witness ==
    /\ IsTick /\ lastOp.first /\ lastOp.origin = "restart"
    /\ beatsPerBar # DefaultBeats
    /\ bpm # DefaultBpm
    /\ currentStep = 0

\* C3: every tick publishes (previous published step + 1) mod totalSteps, a
\* step of the grid; so the published steps cycle with period totalSteps
C3_StepAdvance ==
    IsTick =>
        /\ currentStep = (lastOp.prevStep + 1) % totalSteps
        /\ currentStep \in 0..(totalSteps - 1)

C3_Witness ==
    /\ IsTick /\ ~lastOp.first
    /\ beatsPerBar = MaxBeats
    /\ lastOp.prevStep = MaxBeats * stepsPerBeat - 1
    /\ currentStep = 0

\* C4: while stopped no interval is live (so no tick can fire), the ref is
\* null, no tick has run since stop() and currentStep is the sentinel; a tempo
\* or meter change made while stopped does not arm a timer
C4_StoppedIsQuiet ==
    ~isPlaying =>
        /\ DOMAIN timers = {}
        /\ timerRef = NoTimer
        /\ currentStep = NotPlaying
        /\ lastOp.op # "tick"

C4_Witness ==
    /\ ~isPlaying
    /\ audioRef # NoCtx
    /\ lastOp.op = "setBpm"
    /\ DOMAIN timers = {}

\* C5: when the pattern was not edited since start() and no synth call
\* throws, a tick at step s builds exactly one voice for every row whose cell
\* at s is true and none for every other row
C5_VoicesMatchPattern ==
    (IsTick /\ lastOp.failing = "" /\ ~edited) =>
        \A r \in Rows :
            Count(built, instruments[r + 1]) =
                IF pattern[r + 1][currentStep + 1] THEN 1 ELSE 0

C5_Witness ==
    /\ IsTick /\ lastOp.failing = "" /\ ~edited
    /\ currentStep = 1
    /\ Len(built) = 9
    /\ Count(built, "kick") = 1
    /\ Count(built, "hihat_c") = 0

\* C6: a tick that follows a grid edit made while running builds the voices
\* of the pattern as it is at that tick
C6_TickSeesLatestPattern ==
    (IsTick /\ lastOp.failing = "" /\ edited) =>
        \A r \in Rows :
            Count(built, instruments[r + 1]) =
                IF pattern[r + 1][currentStep + 1] THEN 1 ELSE 0

\* C7: the open hi-hat voice a tick builds has the choked decay if and only
\* if the closed hi-hat is active on the same step of the pattern the tick
\* reads, and the choked decay is shorter than the open one
C7_ChokeIffClosedOnStep ==
    /\ ChokedDecay < OpenDecay
    /\ IsTick =>
          \A i \in 1..Len(built) :
              built[i].inst = "hihat_o" =>
                  /\ built[i].decay \in {ChokedDecay, OpenDecay}
                  /\ built[i].decay = ChokedDecay
                        <=> Active(TickPattern, ClosedRow, currentStep)

C7_Witness ==
    /\ IsTick
    /\ \E i \in 1..Len(built) :
          built[i].inst = "hihat_o" /\ built[i].decay = ChokedDecay
    /\ ~Active(TickPattern, ClosedRow, currentStep + 1)

\* the row orders tried: the shipped order, the shipped order with two
\* neighbouring rows exchanged, and the reversed order
Swap(order, a, b) ==
    [i \in 1..Len(order) |->
        IF i = a THEN order[b] ELSE IF i = b THEN order[a] ELSE order[i]]

Reversed(order) == [i \in 1..Len(order) |-> order[Len(order) + 1 - i]]

Orders ==
    {RowOrder, Reversed(RowOrder)}
        \cup {Swap(RowOrder, a, a + 1) : a \in 1..(Len(instruments) - 1)}

PosIn(order, r) == CHOOSE i \in 1..Len(order) : order[i] = r

ClosedBeforeOpen(order) == PosIn(order, ClosedRow) < PosIn(order, OpenRow)

\* the voices the tick that ran last would build iterating the rows in `order`
BuiltIn(order) ==
    playRows(order, 1, TickPattern, currentStep, audioRef, FALSE, "").built

C9_FailureIsIsolated ==
    (IsTick /\ lastOp.failing # "") =>
        /\ ~escaped
        /\ \A r \in Rows :
              (Active(TickPattern, r, currentStep) /\ instruments[r + 1] # lastOp.failing)
                  => Count(built, instruments[r + 1]) = 1
        /\ isPlaying
        /\ lastOp.t \in DOMAIN timers

\* C10: after toggleCell has set a closed hi-hat cell to true, the open
\* hi-hat cell of the same column is false
C10_ClosedClearsOpen ==
    (lastOp.op = "toggleCell" /\ lastOp.r = ClosedRow
        /\ pattern[ClosedRow + 1][lastOp.c + 1])
        => ~pattern[OpenRow + 1][lastOp.c + 1]

C10_Witness ==
    /\ lastOp.op = "toggleCell" /\ lastOp.r = ClosedRow
    /\ Active(lastOp.pat, OpenRow, lastOp.c)
    /\ pattern[ClosedRow + 1][lastOp.c + 1]
    /\ ~pattern[OpenRow + 1][lastOp.c + 1]

\* no column of matrix p has both the closed and the open hi-hat cell true
NoClash(p) ==
    \A c \in 0..(totalSteps + MaxBeats * stepsPerBeat) :
        ~(Active(p, ClosedRow, c) /\ Active(p, OpenRow, c))

\* C11 as claimed: toggleCell that sets an open hi-hat cell to true leaves
\* the closed hi-hat cell of the column as it was
C11_OpenLeavesClosed ==
    (lastOp.op = "toggleCell" /\ lastOp.r = OpenRow
        /\ pattern[OpenRow + 1][lastOp.c + 1])
        => pattern[ClosedRow + 1][lastOp.c + 1]
              = lastOp.pat[ClosedRow + 1][lastOp.c + 1]

\* C11 amended: toggleCell that sets an open hi-hat cell to true leaves the
\* closed hi-hat cell of the column false; one that sets it to false leaves
\* the closed cell as it was
C11_OpenClearsClosed ==
    (lastOp.op = "toggleCell" /\ lastOp.r = OpenRow) =>
        IF pattern[OpenRow + 1][lastOp.c + 1]
        THEN ~pattern[ClosedRow + 1][lastOp.c + 1]
        ELSE pattern[ClosedRow + 1][lastOp.c + 1]
                = lastOp.pat[ClosedRow + 1][lastOp.c + 1]

C11_Witness ==
    /\ lastOp.op = "toggleCell" /\ lastOp.r = OpenRow
    /\ Active(lastOp.pat, ClosedRow, lastOp.c)
    /\ ~Active(lastOp.pat, OpenRow, lastOp.c)
    /\ pattern[OpenRow + 1][lastOp.c + 1]
    /\ ~pattern[ClosedRow + 1][lastOp.c + 1]

\* C12: once no column has both hi-hats active, no toggleCell, clearAll or
\* meter-change resize produces a column that has both
C12_NoClashIsKept == [][NoClash(pattern) => NoClash(pattern')]_vars

C12_Witness ==
    /\ lastOp.op = "setBeatsPerBar"
    /\ edits = MaxEdits
    /\ NoClash(lastOp.pat)
    /\ NoClash(pattern)
    /\ Active(pattern, OpenRow, 0)
    /\ Len(pattern[1]) # Len(lastOp.pat[1])

\* C13: resizePattern is idempotent: resizing the result of
\* resizePattern(p, rows, cols) to (rows, cols) again returns it unchanged
C13_ResizeIdempotent ==
    lastOp.op = "resizePattern"
        => resizePattern(pattern, lastOp.r, lastOp.c) = pattern

C13_Witness ==
    /\ lastOp.op = "resizePattern"
    /\ Len(lastOp.pat) > lastOp.r
    /\ \E i \in 1..Len(lastOp.pat) : Len(lastOp.pat[i]) < lastOp.c
    /\ \E i \in 1..lastOp.r : Active(pattern, i - 1, lastOp.c - 2)

\* C14: resizePattern(p, rows, cols) has exactly rows rows of cols cells;
\* cell (i, j) is p[i][j] where row i of p exists and has a cell j, and
\* false everywhere else
C14_ResizeCopiesOverlap ==
    lastOp.op = "resizePattern" =>
        LET p == lastOp.pat
        IN  /\ Len(pattern) = lastOp.r
            /\ \A i \in 1..lastOp.r :
                  /\ Len(pattern[i]) = lastOp.c
                  /\ \A j \in 1..lastOp.c :
                        pattern[i][j]
                            = (i <= Len(p) /\ j <= Len(p[i]) /\ p[i][j])

C14_Witness ==
    /\ lastOp.op = "resizePattern"
    /\ Len(lastOp.pat) < lastOp.r
    /\ Len(lastOp.pat) > 0
    /\ Len(lastOp.pat[1]) > lastOp.c
    /\ lastOp.pat[1][Len(lastOp.pat[1])]
    /\ Active(pattern, 0, lastOp.c - 1)
    /\ ~Active(pattern, lastOp.r - 1, 0)

\* C15: whatever shape the stored matrix has, the pattern after the mount has
\* one row per instrument and totalSteps columns, holds the stored cell
\* wherever the stored matrix has one, and is false everywhere else
C15_MountedShape ==
    (lastOp.op = "mount" /\ lastOp.item.kind = "matrix") =>
        LET p == lastOp.item.m
        IN  /\ Len(pattern) = Len(instruments)
            /\ \A i \in 1..Len(pattern) :
                  /\ Len(pattern[i]) = totalSteps
                  /\ \A j \in 1..totalSteps :
                        pattern[i][j]
                            = (i <= Len(p) /\ j <= Len(p[i]) /\ p[i][j])

C15_Witness ==
    /\ lastOp.op = "mount"
    /\ lastOp.item.kind = "matrix"
    /\ Len(lastOp.item.m) > Len(instruments)
    /\ Len(pattern) = Len(instruments)
    /\ \E i \in 1..Len(instruments) :
          /\ Len(lastOp.item.m[i]) > totalSteps
          /\ pattern[i][1]
    /\ \E i \in 1..Len(instruments) :
          /\ Len(lastOp.item.m[i]) < totalSteps
          /\ ~pattern[i][totalSteps]

\* C16 as claimed: a mount that finds no stored matrix (storage throws, no
\* item, unparsable or non-matrix content) starts with the all-false pattern
\* of one row per instrument and totalSteps columns; when storage throws,
\* the save is swallowed and leaves the item alone
C16_FailedLoadStartsEmpty ==
    /\ (lastOp.op = "mount" /\ lastOp.item.kind # "matrix")
          => pattern = makeEmpty(Len(instruments), totalSteps)
    /\ (lastOp.op = "mount" /\ lastOp.item.kind = "throws")
          => (~escaped /\ storage = lastOp.item)

\* C17 as claimed: toggleCell with a row or column outside the pattern shape
\* raises an error and leaves the pattern unchanged
C17_OutOfRangeFailsFast ==
    (/\ lastOp.op = "toggleCell"
     /\ scenario = "helpers"
     /\ \/ lastOp.r >= Len(lastOp.pat)
        \/ lastOp.c >= Len(lastOp.pat[1]))
        => (escaped /\ pattern = lastOp.pat)

C19_ChokedDecayIsClosedDecay ==
    IsTick =>
        \A i \in 1..Len(built) :
            /\ built[i].inst = "hihat_c" => built[i].decay = ClosedDecay
            /\ built[i].inst = "hihat_o" =>
                  built[i].decay =
                      (IF Active(TickPattern, ClosedRow, currentStep)
                       THEN ClosedDecay ELSE OpenDecay)

\* C19 amended: a tick builds the closed hi-hat with the 30 ms decay and the
\* open hi-hat with the 120 ms decay when the closed hat is active on the
\* step and with the 250 ms decay otherwise; the choked decay lies strictly
\* between the closed and the open one
C19_ChokedDecayIsBetween ==
    /\ ClosedDecay < ChokedDecay /\ ChokedDecay < OpenDecay
    /\ IsTick =>
          \A i \in 1..Len(built) :
              /\ built[i].inst = "hihat_c" => built[i].decay = ClosedDecay
              /\ built[i].inst = "hihat_o" =>
                    built[i].decay =
                        (IF Active(TickPattern, ClosedRow, currentStep)
                         THEN ChokedDecay ELSE OpenDecay)

C19_Witness ==
    /\ IsTick
    /\ \E i \in 1..Len(built) :
          built[i].inst = "hihat_c" /\ built[i].decay = ClosedDecay
    /\ \E i \in 1..Len(built) :
          built[i].inst = "hihat_o" /\ built[i].decay = ChokedDecay

\* C20: after a meter change while running, the first tick of the rescheduled
\* interval publishes (currentStep + 1) mod the new totalSteps, and while the
\* transport runs the armed interval wraps at the current totalSteps
C20_MeterChangeKeepsCursor ==
    /\ (IsTick /\ lastOp.first /\ lastOp.origin = "meter")
          => currentStep = (lastOp.prevStep + 1) % totalSteps
    /\ (isPlaying /\ timerRef # NoTimer)
          => timers[timerRef].totalSteps = totalSteps
    /\ (IsTick /\ isPlaying) => currentStep \in 0..(totalSteps - 1)

C20_Witness ==
    /\ IsTick /\ lastOp.first /\ lastOp.origin = "meter"
    /\ lastOp.prevStep >= totalSteps
    /\ currentStep = (lastOp.prevStep + 1) % totalSteps
    /\ currentStep > 0

\* C22 as claimed: the published currentStep is the sentinel -1 or lies in
\* 0..totalSteps-1 in every state
C22_StepInRange ==
    currentStep = NotPlaying \/ currentStep \in 0..(totalSteps - 1)

\* C23 as claimed: the matrix a tick reads has one row per instrument and
\* exactly totalSteps columns
C23_TickReadsExactShape ==
    IsTick =>
        /\ Len(TickPattern) = Len(instruments)
        /\ \A i \in 1..Len(TickPattern) : Len(TickPattern[i]) = totalSteps

\* C24 as claimed: toggleCell that switches a closed hi-hat cell off leaves
\* the open hi-hat cell of the column as it was
C24_ClosedOffKeepsOpen ==
    (/\ lastOp.op = "toggleCell"
     /\ scenario # "helpers"
     /\ lastOp.r = ClosedRow
     /\ ~pattern[ClosedRow + 1][lastOp.c + 1])
        => pattern[OpenRow + 1][lastOp.c + 1]
              = lastOp.pat[OpenRow + 1][lastOp.c + 1]

\* the hi-hat row paired with row r, or r itself for any other row
PairedRow(r) ==
    IF r = ClosedRow THEN OpenRow ELSE IF r = OpenRow THEN ClosedRow ELSE r

\* C25: a toggleCell(r, c) step keeps the shape and every cell other than
\* (r, c) and the paired hi-hat cell of column c, keeps tempo, meter, running
\* flag and currentStep, and leaves the matrices held by the armed intervals
\* as they were
C25_ToggleFrame ==
    [][(lastOp'.op = "toggleCell" /\ scenario = "editing") =>
          /\ Len(pattern') = Len(pattern)
          /\ \A i \in 1..Len(pattern) :
                /\ Len(pattern'[i]) = Len(pattern[i])
                /\ \A j \in 1..Len(pattern[i]) :
                      pattern'[i][j] # pattern[i][j] =>
                          /\ j = lastOp'.c + 1
                          /\ i - 1 \in {lastOp'.r, PairedRow(lastOp'.r)}
          /\ pattern'[lastOp'.r + 1][lastOp'.c + 1]
                = ~pattern[lastOp'.r + 1][lastOp'.c + 1]
          /\ bpm' = bpm /\ beatsPerBar' = beatsPerBar
          /\ isPlaying' = isPlaying /\ currentStep' = currentStep
          /\ timers' = timers /\ timerRef' = timerRef
          /\ lastOp'.pat = pattern]_vars

C25_Witness ==
    /\ lastOp.op = "toggleCell" /\ scenario = "editing"
    /\ lastOp.r = OpenRow
    /\ isPlaying /\ currentStep > 0
    /\ Active(lastOp.pat, ClosedRow, lastOp.c)
    /\ ~Active(lastOp.pat, OpenRow, lastOp.c)
    /\ Active(pattern, OpenRow, lastOp.c)
    /\ ~Active(pattern, ClosedRow, lastOp.c)
    /\ Active(pattern, 0, lastOp.c)
    /\ Active(pattern, 0, lastOp.c + 1)
    /\ timerRef # NoTimer
    /\ Active(timers[timerRef].pattern, ClosedRow, lastOp.c)
    /\ Active(timers[timerRef].pattern, OpenRow, lastOp.c)

\* C28: no audio context exists after the mount, at most one is ever
\* constructed, audioRef holds it from then on (stop() keeps it), and every
\* voice is built on it
C28_OneLazyContext ==
    /\ ctxCreated \in {0, 1}
    /\ audioRef = ctxCreated
    /\ lastOp.op = "mount" => audioRef = NoCtx
    /\ lastOp.op \in {"start", "stop", "tick"} => audioRef # NoCtx
    /\ \A i \in 1..Len(built) : built[i].ctx = audioRef /\ built[i].ctx # NoCtx

C28_Witness ==
    /\ IsTick /\ lastOp.origin = "restart"
    /\ ctxCreated = 1
    /\ Len(built) > 1
    /\ built[1].ctx = audioRef

\* C27 as claimed: every sound source of every voice a tick builds starts at
\* the voice's start time and stops strictly after the end of the gain ramp
\* it is routed through
C27_StopAfterEnvelope ==
    IsTick =>
        \A i \in 1..Len(built) :
            \A s \in Sources(built[i]) : s.start = 0 /\ s.stop > s.env

\* C26: at most one interval is live, timerRef holds its id, and an interval
\* is live exactly when isPlaying is true
C26_OneLiveTimer ==
    /\ Cardinality(DOMAIN timers) <= 1
    /\ isPlaying <=> DOMAIN timers # {}
    /\ DOMAIN timers = IF timerRef = NoTimer THEN {} ELSE {timerRef}

C26_Witness ==
    /\ lastOp.op = "start"
    /\ scenario = "restart"
    /\ currentStep > 0
    /\ bpm = MaxBpm
    /\ beatsPerBar = MinBeats
    /\ DOMAIN timers = {timerRef}
    /\ timers[timerRef].step = NotPlaying

\* C21 as claimed: in the part_000 variant the tick that follows a tempo or
\* meter change made while running publishes the step after the one published
\* before the change, modulo totalSteps
C21_Part000KeepsCursor ==
    [][(/\ lastOp.op \in {"setBpm", "setBeatsPerBar"}
        /\ lastOp.wasPlaying
        /\ lastOp.prevStep # NotPlaying
        /\ lastOp'.op = "tick")
          => currentStep' = (lastOp.prevStep + 1) % totalSteps]_vars

====
